---- MODULE Spec2Model ----
(***************************************************************************)
(* CryptoScopeBackend: the incremental OHLCV ingestion pipeline.           *)
(*                                                                         *)
(*   filter2_check_existing_data.get_existing_status  (watermark read)     *)
(*   filter3_download_missing.update_data             (scheduler)          *)
(*   filter3_download_missing.fetch_worker            (pool task)          *)
(*   filter3_download_missing.yahoo_fetch_range_rows  (range fetcher)      *)
(*   filter3_download_missing.db_writer               (writer thread)      *)
(*   main.api_run_etl / run_pipeline.run_pipeline     (entry points)       *)
(*                                                                         *)
(* Dates are day ordinals (days since 1970-01-01); the date column of the  *)
(* prices table holds fixed-width ISO strings, whose order is the order of *)
(* the ordinals.  Timestamps are epoch seconds; the host clock is UTC.     *)
(* Prices are small integers standing for the floats of the code.          *)
(***************************************************************************)
EXTENDS Integers, Sequences, FiniteSets, TLC

\* ------------------------------------------------------------------ bounds
\* Number of symbols in symbols.csv in the pipeline specifications.
NumSymbols == 2
\* Largest value of update_data's workers argument.
MaxWorkers == 2
\* Number of consecutive pipeline runs of one entry point.
MaxRuns == 2
\* Number of request threads that can serve POST /api/etl/run.
MaxHandlers == 2
\* Number of daily candles the remote holds per symbol (the last is today's).
HistoryDays == 2
\* Distinct values the live (today's) candle can take.
MaxPrice == 2
\* Largest number of CPUs os.cpu_count() reports.
MaxCpus == 1
\* Largest max_pages (and number of pages the listing site has).
MaxPages == 2
\* Largest batch_pages.
MaxBatch == 2
\* Largest limit.
MaxLimit == 2
\* Largest number of ticker cells on a listing page.
MaxPageLen == 2
\* Longest array in a response handed to the range fetcher on its own.
MaxLen == 1
\* Largest years_back the window planner is called with on its own, besides
\* fetch_worker's own.
MaxLookback == 2
\* Days before and after today and each horizon from which the planner's
\* watermarks are drawn.
PlanSpan == 3

\* ------------------------------------------------------- program constants
\* date.today(): 2024-06-01 as a day ordinal.
Today == 19875
\* fetch_worker's years_back=10.
YearsBack == 10
\* timedelta(days=365 * years_back).
DaysPerYear == 365
\* Queue(maxsize=workers * 4).
QueueFactor == 4
\* datetime.timestamp() / utcfromtimestamp(): seconds in a day.
SecondsPerDay == 86400

Min(a, b) == IF a <= b THEN a ELSE b
Max(a, b) == IF a >= b THEN a ELSE b

\* --------------------------------------------------------------- JSON values
\* A scalar of a response array: null, a number, or a non-numeric string.
Null == [t |-> "null", v |-> 0]
Bad == [t |-> "str", v |-> 0]
Num(x) == [t |-> "num", v |-> x]

\* The value under a key of the result/quote object: the key is absent, its
\* value is null, a truthy non-iterable (a number), or a list of scalars.
Absent == [k |-> "absent", a |-> <<>>]
NullField == [k |-> "null", a |-> <<>>]
NonList == [k |-> "nonlist", a |-> <<>>]
List(s) == [k |-> "list", a |-> s]

\* What session.get(...) / resp.json() can give:
\*   neterr    session.get raises (timeout, connection failure)
\*   badjson   resp.json() raises (undecodable body)
\*   nokeys    data["chart"]["result"][0] / ["indicators"]["quote"][0] raises
\*   nullquote the quote element is null: taken without error at line 144
\*   chart     a result object with a timestamp entry and a quote object
Response(kind, ts, o, h, l, c, v) ==
    [kind |-> kind, timestamp |-> ts, open |-> o, high |-> h, low |-> l,
     close |-> c, volume |-> v]
NoBody(kind) == Response(kind, Absent, Absent, Absent, Absent, Absent, Absent)

\* ------------------------------------------------------------ range fetcher
\* The outcome of a call: it raised, or it returned rows; http records
\* whether session.get was called.
Returned(rows, http) == [raised |-> FALSE, rows |-> rows, http |-> http]
Raised == [raised |-> TRUE, rows |-> <<>>, http |-> TRUE]

\* quote.get(name, []) or []
QuoteArray(f) == IF f.k \in {"absent", "null"} THEN List(<<>>) ELSE f

\* result.get("timestamp", [])
TimestampArray(f) == IF f.k = "absent" THEN List(<<>>) ELSE f

\* The arrays handed to zip, in its argument order.
ZipArgs(resp) ==
    << TimestampArray(resp.timestamp), QuoteArray(resp.open),
       QuoteArray(resp.high), QuoteArray(resp.low), QuoteArray(resp.close),
       QuoteArray(resp.volume) >>

\* zip stops at the shortest of its arguments.
ZipLen(args) ==
    LET lens == { Len(args[j].a) : j \in 1..6 }
    IN  CHOOSE n \in lens : \A m \in lens : n <= m

\* if o is None or h is None or l is None or c is None: continue
RecordSkipped(args, i) == \E j \in 2..5 : args[j].a[i].t = "null"

\* utcfromtimestamp(t) and float(...) raise on what is not a number;
\* volume is converted only when it is not None.
RecordRaises(args, i) ==
    /\ ~RecordSkipped(args, i)
    /\ \/ args[1].a[i].t # "num"
       \/ \E j \in 2..5 : args[j].a[i].t # "num"
       \/ args[6].a[i].t = "str"

RowOf(symbol, args, i) ==
    << symbol, args[1].a[i].v \div SecondsPerDay, args[2].a[i].v,
       args[3].a[i].v, args[4].a[i].v, args[5].a[i].v,
       IF args[6].a[i].t = "null" THEN 0 ELSE args[6].a[i].v >>

RECURSIVE ParseRows(_, _, _)
ParseRows(symbol, args, n) ==
    IF n = 0 THEN <<>>
    ELSE LET before == ParseRows(symbol, args, n - 1)
         IN  IF RecordSkipped(args, n) THEN before
             ELSE Append(before, RowOf(symbol, args, n))

yahoo_fetch_range_rows(symbol, start_dt, end_dt, resp) ==
    IF start_dt >= end_dt THEN Returned(<<>>, FALSE)
    ELSE IF resp.kind \in {"neterr", "badjson", "nokeys"}
         THEN Returned(<<>>, TRUE)
    ELSE IF resp.kind = "nullquote" THEN Raised
    ELSE LET args == ZipArgs(resp)
         IN  IF \E j \in 1..6 : args[j].k # "list" THEN Raised
             ELSE IF \E i \in 1..ZipLen(args) : RecordRaises(args, i)
                  THEN Raised
             ELSE Returned(ParseRows(symbol, args, ZipLen(args)), TRUE)

\* ------------------------------------------------------------- date helpers
\* A last_date cell of download_plan.csv: pd.NA / empty, or a date string.
NA == [k |-> "na", d |-> 0]
DateCell(d) == [k |-> "date", d |-> d]

\* A date | None value: <<>> is None, <<d>> the date d.
_normalize_last_date(raw_last_date) ==
    IF raw_last_date.k = "na" THEN <<>> ELSE << raw_last_date.d >>

\* The day ordinal of the calendar date year-month-day (proleptic Gregorian
\* calendar, as datetime.date): the years are counted from 1 March, so that
\* the leap day is the last day of its year.
DateOrdinal(year, month, day) ==
    LET y == IF month <= 2 THEN year - 1 ELSE year
        era == y \div 400
        yoe == y - era * 400
        mp == IF month > 2 THEN month - 3 ELSE month + 9
        doy == (153 * mp + 2) \div 5 + day - 1
        doe == yoe * 365 + yoe \div 4 - yoe \div 100 + doy
    IN  era * 146097 + doe - 719468

\* Seeded fault: the horizon counted in calendar years (today with the year
\* lowered by years_back), leap days included.
_compute_start_date_calendar(last_date, years_back) ==
    LET n_years_ago == Today - (DaysPerYear * years_back + (years_back + 2) \div 4)
        start == IF last_date = <<>> THEN n_years_ago
                 ELSE Max(last_date[1] + 1, n_years_ago)
    IN  IF start >= Today THEN Today ELSE start

_compute_start_date(last_date, years_back) ==
    LET n_years_ago == Today - DaysPerYear * years_back
        start == IF last_date = <<>> THEN n_years_ago
                 ELSE Max(last_date[1] + 1, n_years_ago)
    IN  IF start >= Today THEN Today ELSE start

\* fetch_worker's start_dt and (exclusive) end_dt for a lookback of years_back.
Window(raw_last_date, years_back) ==
    << _compute_start_date(_normalize_last_date(raw_last_date), years_back),
       Today + 1 >>

\* The window fetch_worker asks for: start_dt and the exclusive end_dt.
WindowOf(raw_last_date) == Window(raw_last_date, YearsBack)

\* fetch_worker, given what the remote answers if it is asked.
fetch_worker(symbol, raw_last_date, resp) ==
    LET w == WindowOf(raw_last_date)
    IN  IF w[1] >= w[2] THEN Returned(<<>>, FALSE)
        ELSE yahoo_fetch_range_rows(symbol, w[1], w[2], resp)

\* period1 / period2 of the request.
Period(dt) == dt * SecondsPerDay

\* ------------------------------------------------------------------- store
\* The prices table is a set of rows (symbol, date, open, high, low, close,
\* volume); PRIMARY KEY(symbol, date).
Key(row) == << row[1], row[2] >>
Keys(tbl) == { Key(row) : row \in tbl }

\* Seeded fault: INSERT OR REPLACE, the row with the key is overwritten.
InsertOrReplace(tbl, row) ==
    { r \in tbl : Key(r) # Key(row) } \cup {row}

\* INSERT OR IGNORE INTO prices ... of one row.
InsertOrIgnore(tbl, row) ==
    IF Key(row) \in Keys(tbl) THEN tbl ELSE tbl \cup {row}

\* cur.executemany over the first k rows of the batch.
RECURSIVE ExecuteMany(_, _, _)
ExecuteMany(tbl, rows, k) ==
    IF k = 0 THEN tbl
    ELSE InsertOrIgnore(ExecuteMany(tbl, rows, k - 1), rows[k])

\* SELECT MAX(date) FROM prices WHERE symbol = ?  (pd.NA when there is none)
MaxDate(tbl, sym) ==
    LET dates == { row[2] : row \in { r \in tbl : r[1] = sym } }
    IN  IF dates = {} THEN NA
        ELSE DateCell(CHOOSE d \in dates : \A e \in dates : e <= d)

\* ------------------------------------------------------------------ remote
Prices == 1..MaxPrice

\* The remote's daily candles: one per day at 00:00 UTC for the last
\* HistoryDays days.  A closed candle has price 1, today's the live price.
CandlePrice(day, live) == IF day = Today THEN live ELSE 1

\* The days of the candles with period1 <= timestamp < period2, ascending.
RECURSIVE DaysIn(_, _, _)
DaysIn(day, period1, period2) ==
    IF day > Today THEN <<>>
    ELSE IF period1 <= Period(day) /\ Period(day) < period2
         THEN << day >> \o DaysIn(day + 1, period1, period2)
         ELSE DaysIn(day + 1, period1, period2)

\* The well-formed answer to GET chart/{symbol}?period1=..&period2=..
ChartResponse(period1, period2, live) ==
    LET days == DaysIn(Today - HistoryDays + 1, period1, period2)
        col == List([i \in 1..Len(days) |-> Num(CandlePrice(days[i], live))])
    IN  Response("chart",
                 List([i \in 1..Len(days) |-> Num(Period(days[i]))]),
                 col, col, col, col, col)

\* The answers that are not a well-formed chart: a transport failure, an
\* undecodable body, a body without the expected keys, a null timestamp.
FaultResponses ==
    { NoBody("neterr"), NoBody("badjson"), NoBody("nokeys"),
      Response("chart", NullField, Absent, Absent, Absent, Absent, Absent) }

\* ------------------------------------------------------------------- state
Handlers == 1..MaxHandlers

\* An int | None value: <<>> is None, <<n>> the int n.
Given(S) == { << n >> : n \in S }

\* What os.cpu_count() can return: None, or the number of CPUs.
CpuCounts == { <<>> } \cup Given(1..MaxCpus)

\* workers = (os.cpu_count() or 4) * 4
DefaultWorkers(cpu_count) == (IF cpu_count = <<>> THEN 4 ELSE cpu_count[1]) * 4

\* An item of the hand-off queue: a batch of rows, or None (end of stream).
Batch(rows) == [none |-> FALSE, rows |-> rows]
NoneItem == [none |-> TRUE, rows |-> <<>>]

VARIABLES
    deploy,        \* how the pipeline is started: the request threads, the
                   \* runs each makes, the workers arguments it may pass
    symbolsCsv,    \* symbols.csv: the symbol universe
    planCsv,       \* download_plan.csv: rows (symbol, last_date)
    store,         \* the committed rows of the prices table
    remoteStable,  \* the remote has answered every request so far with a
                   \* well-formed chart in which today's candle has price 1
    pc,            \* per request thread: where its main thread is
    runNo,         \* per request thread: runs of update_data started
    workers,       \* update_data: workers after the clamp
    task,          \* update_data: the futures, one per plan row
    collected,     \* update_data: the futures as_completed has yielded
    inhand,        \* update_data: rows, between fut.result() and q.put(rows)
    total_rows,    \* update_data: total_rows
    completed,     \* update_data: completed
    progress,      \* update_data: the completed counts that were printed
    q,             \* update_data: the Queue
    wpc,           \* db_writer: where the writer thread is
    wtxn,          \* db_writer: rows inserted on conn and not committed
    total_written, \* db_writer: total_written
    handed,        \* history: symbols of the batches put on the queue
    processed,     \* history: the batches the writer took, and how each ended
    sentinels,     \* history: number of q.put(None)
    storeAtStart,  \* history: the store as it was when the run started
    probe,         \* a call of the range fetcher on its own
    probeOut,      \* what that call returned
    planIn,        \* a call of the window planner on its own
    planOut,       \* the window it gave
    site,          \* the listing site: what each of its pages holds
    scrape         \* get_symbols: its arguments and locals

shared == << deploy, symbolsCsv, planCsv, store, remoteStable >>
mainVars == << pc, runNo, workers, collected, inhand, total_rows, completed,
               progress >>
writerVars == << wpc, wtxn, total_written >>
history == << handed, processed, sentinels, storeAtStart >>
probeVars == << probe, probeOut >>
planVars == << planIn, planOut >>
scrapeVars == << site, scrape >>
sideVars == << probeVars, planVars, scrapeVars >>
vars == << shared, mainVars, task, q, writerVars, history, sideVars >>

NoProbe == [st |-> "none", start_dt |-> 0, end_dt |-> 0, resp |-> NoBody("neterr")]

\* The state before any entry point has run: an empty prices table.
InitPipeline(dep, syms) ==
    /\ deploy = dep
    /\ symbolsCsv = syms
    /\ planCsv = <<>>
    /\ store = {}
    /\ remoteStable = TRUE
    /\ pc = [h \in Handlers |-> "idle"]
    /\ runNo = [h \in Handlers |-> 0]
    /\ workers = [h \in Handlers |-> 0]
    /\ task = [h \in Handlers |-> <<>>]
    /\ collected = [h \in Handlers |-> {}]
    /\ inhand = [h \in Handlers |-> <<>>]
    /\ total_rows = [h \in Handlers |-> 0]
    /\ completed = [h \in Handlers |-> 0]
    /\ progress = [h \in Handlers |-> {}]
    /\ q = [h \in Handlers |-> <<>>]
    /\ wpc = [h \in Handlers |-> "none"]
    /\ wtxn = [h \in Handlers |-> {}]
    /\ total_written = [h \in Handlers |-> 0]
    /\ handed = [h \in Handlers |-> <<>>]
    /\ processed = [h \in Handlers |-> <<>>]
    /\ sentinels = [h \in Handlers |-> 0]
    /\ storeAtStart = [h \in Handlers |-> {}]

NoPlan == [st |-> "none", last_date |-> NA, years_back |-> 0]

\* No call of the window planner on its own.
IdlePlan ==
    /\ planIn = NoPlan
    /\ planOut = << 0, 0 >>

\* get_symbols at its start, called with (limit, batch_pages, max_pages).
NewScrape(pc0, limit, batch_pages, max_pages) ==
    [pc |-> pc0, limit |-> limit, batch_pages |-> batch_pages,
     max_pages |-> max_pages, final_symbols |-> <<>>, seen_bases |-> {},
     current_page_idx |-> 0, total_pages_fetched |-> 0, any_data |-> TRUE,
     batch_starts |-> <<>>, page_results |-> {}]

\* No call of get_symbols.
IdleScrape ==
    /\ site = <<>>
    /\ scrape = NewScrape("none", 0, 0, 0)

InitWith(dep, syms) ==
    /\ InitPipeline(dep, syms)
    /\ probe = NoProbe
    /\ probeOut = Returned(<<>>, FALSE)
    /\ IdlePlan
    /\ IdleScrape

\* One run of the pipeline (get_existing_status, then update_data) on a
\* fresh database, with NumSymbols symbols.
Init ==
    InitWith([handlers |-> {1}, runs |-> 1, workerArgs |-> Given(1..MaxWorkers)],
             [i \in 1..NumSymbols |-> i])

\* ------------------------------------------------- filter2: watermark read
\* get_existing_status: one SELECT MAX(date) per symbol, written to
\* download_plan.csv.  api_run_etl and run_pipeline call it before
\* update_data.
GetExistingStatus(h) ==
    /\ h \in deploy.handlers
    /\ pc[h] \in {"idle", "done"}
    /\ runNo[h] < deploy.runs
    /\ planCsv' = [i \in 1..Len(symbolsCsv) |->
                     [symbol |-> symbolsCsv[i],
                      last_date |-> MaxDate(store, symbolsCsv[i])]]
    /\ pc' = [pc EXCEPT ![h] = "planned"]
    /\ UNCHANGED << deploy, symbolsCsv, store, remoteStable, runNo,
                    workers, collected, inhand, total_rows, completed,
                    progress, task, q, writerVars, history, sideVars >>

\* ----------------------------------------------------- filter3: scheduler
Capacity(h) == workers[h] * QueueFactor

\* Queue(maxsize): a maxsize of 0 or less makes the queue unbounded.
Full(h) == Capacity(h) > 0 /\ Len(q[h]) >= Capacity(h)

\* A future: its task's arguments, how far it is, its result, and whether
\* its request met a transient error (no answer, an answer other than 200,
\* an undecodable body or one without the chart keys).
NewTask(row) ==
    [symbol |-> row.symbol, last_date |-> row.last_date, st |-> "pending",
     res |-> Returned(<<>>, FALSE), transient |-> FALSE]

\* update_data up to the as_completed loop: read the plan, clamp workers,
\* create the queue, start the writer thread, submit one task per plan row.
\* ThreadPoolExecutor(max_workers) raises ValueError when max_workers <= 0:
\* update_data raises with the writer thread started and nothing submitted.
\* (With an empty plan update_data returns before any of this.)
UpdateDataStart(h, w) ==
    /\ pc[h] = "planned"
    /\ w \in deploy.workerArgs
    /\ planCsv # <<>>
    /\ \E cpu_count \in CpuCounts :
         LET requested == IF w = <<>> THEN DefaultWorkers(cpu_count) ELSE w[1]
             clamped == Min(requested, Len(planCsv))
         IN  /\ workers' = [workers EXCEPT ![h] = clamped]
             /\ task' = [task EXCEPT ![h] =
                           IF clamped <= 0 THEN <<>>
                           ELSE [i \in 1..Len(planCsv) |-> NewTask(planCsv[i])]]
             /\ pc' = [pc EXCEPT ![h] = IF clamped <= 0 THEN "raised" ELSE "collect"]
    /\ q' = [q EXCEPT ![h] = <<>>]
    /\ wpc' = [wpc EXCEPT ![h] = "start"]
    /\ wtxn' = [wtxn EXCEPT ![h] = {}]
    /\ total_written' = [total_written EXCEPT ![h] = 0]
    /\ collected' = [collected EXCEPT ![h] = {}]
    /\ inhand' = [inhand EXCEPT ![h] = <<>>]
    /\ total_rows' = [total_rows EXCEPT ![h] = 0]
    /\ completed' = [completed EXCEPT ![h] = 0]
    /\ progress' = [progress EXCEPT ![h] = {}]
    /\ runNo' = [runNo EXCEPT ![h] = @ + 1]
    /\ handed' = [handed EXCEPT ![h] = <<>>]
    /\ processed' = [processed EXCEPT ![h] = <<>>]
    /\ sentinels' = [sentinels EXCEPT ![h] = 0]
    /\ storeAtStart' = [storeAtStart EXCEPT ![h] = store]
    /\ UNCHANGED << shared, sideVars >>

Running(h) == { i \in 1..Len(task[h]) : task[h][i].st = "running" }

\* The pool takes the submitted tasks in order, at most `workers` at a time.
\* A finished task leaves its result in its future and frees its thread.
TaskStart(h, i) ==
    /\ i \in 1..Len(task[h])
    /\ task[h][i].st = "pending"
    /\ \A j \in 1..(i - 1) : task[h][j].st # "pending"
    /\ Cardinality(Running(h)) < workers[h]
    /\ task' = [task EXCEPT ![h][i].st = "running"]
    /\ UNCHANGED << shared, mainVars, q, writerVars, history, sideVars >>

\* fetch_worker runs to its end, the remote answering resp if it is asked.
TaskFinish(h, i, resp) ==
    /\ i \in 1..Len(task[h])
    /\ task[h][i].st = "running"
    /\ task' = [task EXCEPT ![h][i].st = "done",
                            ![h][i].res = fetch_worker(task[h][i].symbol,
                                                       task[h][i].last_date, resp),
                            ![h][i].transient =
                                resp.kind \in {"neterr", "badjson", "nokeys"}]

\* The remote answers with its chart for the requested period; today's
\* candle is live and has the price it has at that moment.
TaskReturns(h, i, live) ==
    /\ i \in 1..Len(task[h])
    /\ \E w \in {WindowOf(task[h][i].last_date)} :
         \E resp \in {ChartResponse(Period(w[1]), Period(w[2]), live)} :
            TaskFinish(h, i, resp)
    /\ remoteStable' = (remoteStable /\ live = 1)
    /\ UNCHANGED << deploy, symbolsCsv, planCsv, store, mainVars, q,
                    writerVars, history, sideVars >>

\* The request fails, or the body is not a well-formed chart.
TaskFaulted(h, i) ==
    /\ i \in 1..Len(task[h])
    /\ LET w == WindowOf(task[h][i].last_date) IN w[1] < w[2]
    /\ \E resp \in FaultResponses : TaskFinish(h, i, resp)
    /\ remoteStable' = FALSE
    /\ UNCHANGED << deploy, symbolsCsv, planCsv, store, mainVars, q,
                    writerVars, history, sideVars >>

\* The remote answers with a status other than 200 and a body that is the
\* chart for the requested period.  session.get returns the response
\* whatever its status, and the status is not looked at.
TaskNon200(h, i, live) ==
    /\ i \in 1..Len(task[h])
    /\ task[h][i].st = "running"
    /\ \E w \in {WindowOf(task[h][i].last_date)} :
         \E resp \in {ChartResponse(Period(w[1]), Period(w[2]), live)} :
            task' = [task EXCEPT ![h][i].st = "done",
                                 ![h][i].res = fetch_worker(task[h][i].symbol,
                                                            task[h][i].last_date, resp),
                                 ![h][i].transient = TRUE]
    /\ remoteStable' = FALSE
    /\ UNCHANGED << deploy, symbolsCsv, planCsv, store, mainVars, q,
                    writerVars, history, sideVars >>

\* completed % 200 == 0 or completed == len(symbols)
ProgressEvery == 200
Reports(n, total) == n % ProgressEvery = 0 \/ n = total

\* Seeded fault: the future is not marked as yielded, so as_completed can
\* yield it again.
CollectResultAgain(h, i) ==
    /\ pc[h] = "collect"
    /\ i \in 1..Len(task[h])
    /\ task[h][i].st = "done"
    /\ ~task[h][i].res.raised
    /\ LET rows == task[h][i].res.rows
           n_rows == Len(rows)
       IN  /\ total_rows' = [total_rows EXCEPT ![h] = @ + n_rows]
           /\ completed' = [completed EXCEPT ![h] = @ + 1]
           /\ progress' = [progress EXCEPT ![h] =
                             IF Reports(completed[h] + 1, Len(task[h]))
                             THEN @ \cup {completed[h] + 1} ELSE @]
           /\ IF n_rows > 0
              THEN /\ pc' = [pc EXCEPT ![h] = "put"]
                   /\ inhand' = [inhand EXCEPT ![h] = rows]
              ELSE UNCHANGED << pc, inhand >>
    /\ UNCHANGED << shared, runNo, workers, collected, task, q, writerVars,
                    history, sideVars >>

\* as_completed yields a finished future (which one, when several have
\* finished, is not fixed); fut.result() returns (sym, rows).
CollectResult(h, i) ==
    /\ pc[h] = "collect"
    /\ i \in 1..Len(task[h])
    /\ i \notin collected[h]
    /\ task[h][i].st = "done"
    /\ ~task[h][i].res.raised
    /\ LET rows == task[h][i].res.rows
           n_rows == Len(rows)
       IN  /\ total_rows' = [total_rows EXCEPT ![h] = @ + n_rows]
           /\ completed' = [completed EXCEPT ![h] = @ + 1]
           /\ progress' = [progress EXCEPT ![h] =
                             IF Reports(completed[h] + 1, Len(task[h]))
                             THEN @ \cup {completed[h] + 1} ELSE @]
           /\ IF n_rows > 0
              THEN /\ pc' = [pc EXCEPT ![h] = "put"]
                   /\ inhand' = [inhand EXCEPT ![h] = rows]
              ELSE UNCHANGED << pc, inhand >>
    /\ collected' = [collected EXCEPT ![h] = @ \cup {i}]
    /\ UNCHANGED << shared, runNo, workers, task, q, writerVars, history,
                    sideVars >>

\* Seeded fault: no except branch, the exception leaves the loop and
\* update_data.
CollectCrashPropagates(h, i) ==
    /\ pc[h] = "collect"
    /\ i \in 1..Len(task[h])
    /\ i \notin collected[h]
    /\ task[h][i].st = "done"
    /\ task[h][i].res.raised
    /\ pc' = [pc EXCEPT ![h] = "raised"]
    /\ collected' = [collected EXCEPT ![h] = @ \cup {i}]
    /\ UNCHANGED << shared, runNo, workers, inhand, total_rows, completed,
                    progress, task, q, writerVars, history, sideVars >>

\* fut.result() re-raises the task's exception; the except branch prints it
\* and the loop goes on.
CollectCrash(h, i) ==
    /\ pc[h] = "collect"
    /\ i \in 1..Len(task[h])
    /\ i \notin collected[h]
    /\ task[h][i].st = "done"
    /\ task[h][i].res.raised
    /\ collected' = [collected EXCEPT ![h] = @ \cup {i}]
    /\ UNCHANGED << shared, pc, runNo, workers, inhand, total_rows, completed,
                    progress, task, q, writerVars, history, sideVars >>

\* q.put(rows): blocks while the queue is full.
Put(h) ==
    /\ pc[h] = "put"
    /\ ~Full(h)
    /\ q' = [q EXCEPT ![h] = Append(@, Batch(inhand[h]))]
    /\ handed' = [handed EXCEPT ![h] = Append(@, inhand[h][1][1])]
    /\ inhand' = [inhand EXCEPT ![h] = <<>>]
    /\ pc' = [pc EXCEPT ![h] = "collect"]
    /\ UNCHANGED << shared, runNo, workers, collected, total_rows, completed,
                    progress, task, writerVars, processed, sentinels,
                    storeAtStart, sideVars >>

\* Seeded fault: the loop is left after the first future.
LoopDoneEarly(h) == collected[h] # {}

\* The as_completed loop ends when every future has been yielded.
LoopDone(h) == collected[h] = 1..Len(task[h])

\* The with block is left (every task has finished), then q.put(None).
PutSentinel(h) ==
    /\ pc[h] = "collect"
    /\ LoopDone(h)
    /\ ~Full(h)
    /\ q' = [q EXCEPT ![h] = Append(@, NoneItem)]
    /\ sentinels' = [sentinels EXCEPT ![h] = @ + 1]
    /\ pc' = [pc EXCEPT ![h] = "join"]
    /\ UNCHANGED << shared, runNo, workers, collected, inhand, total_rows,
                    completed, progress, task, writerVars, handed, processed,
                    storeAtStart, sideVars >>

\* The writer thread has ended: it left its loop and closed the connection,
\* or an exception ended it before the loop.
WriterEnded(h) == wpc[h] \in {"closed", "dead"}

\* writer_thread.join() returns once the writer thread has ended; then the
\* final print, and update_data returns.
Join(h) ==
    /\ pc[h] = "join"
    /\ WriterEnded(h)
    /\ pc' = [pc EXCEPT ![h] = "done"]
    /\ UNCHANGED << shared, runNo, workers, collected, inhand, total_rows,
                    completed, progress, task, q, writerVars, history,
                    sideVars >>

\* -------------------------------------------------------- filter3: writer
\* sqlite3.connect(DB_PATH, timeout=60) and the two PRAGMAs.
WriterOpen(h) ==
    /\ wpc[h] = "start"
    /\ wpc' = [wpc EXCEPT ![h] = "get"]
    /\ UNCHANGED << shared, mainVars, task, q, wtxn, total_written, history,
                    sideVars >>

\* sqlite3.connect or one of the PRAGMAs raises: they are outside the try, so
\* the exception ends the writer thread; nobody takes from the queue.
WriterOpenFails(h) ==
    /\ wpc[h] = "start"
    /\ wpc' = [wpc EXCEPT ![h] = "dead"]
    /\ UNCHANGED << shared, mainVars, task, q, wtxn, total_written, history,
                    sideVars >>

\* A connection with uncommitted rows holds the database's write lock.
LockFree(h) == \A g \in Handlers \ {h} : wtxn[g] = {}

\* What conn sees: the committed rows and its own uncommitted ones.
View(h) == store \cup wtxn[h]

Outcome(rows, ok) == [symbol |-> rows[1][1], rows |-> rows, ok |-> ok]

\* queue.get() gives a batch; executemany and commit succeed.
WriterBatchOk(h) ==
    /\ wpc[h] = "get"
    /\ q[h] # <<>>
    /\ ~Head(q[h]).none
    /\ LockFree(h)
    /\ LET rows == Head(q[h]).rows
       IN  IF rows = <<>>
           THEN UNCHANGED << store, total_written, processed >>
           ELSE /\ store' = ExecuteMany(View(h), rows, Len(rows))
                /\ total_written' = [total_written EXCEPT ![h] = @ + Len(rows)]
                /\ processed' = [processed EXCEPT ![h] = Append(@, Outcome(rows, TRUE))]
    /\ wtxn' = [wtxn EXCEPT ![h] = {}]
    /\ q' = [q EXCEPT ![h] = Tail(@)]
    /\ UNCHANGED << deploy, symbolsCsv, planCsv, remoteStable, mainVars,
                    task, wpc, handed, sentinels, storeAtStart, sideVars >>

\* queue.get() gives a batch; executemany raises at row k + 1, or (k = the
\* number of rows) commit raises.  The except branch prints and the loop goes
\* on; nothing rolls the transaction back, unless SQLite did so itself
\* (rolledBack), so the rows inserted before the error stay uncommitted on
\* conn.  While another connection holds the write lock the first INSERT
\* times out (k = 0).
WriterBatchFail(h, k, rolledBack) ==
    /\ wpc[h] = "get"
    /\ q[h] # <<>>
    /\ ~Head(q[h]).none
    /\ Head(q[h]).rows # <<>>
    /\ k \in 0..Len(Head(q[h]).rows)
    /\ LockFree(h) \/ k = 0
    /\ LET rows == Head(q[h]).rows
       IN  /\ wtxn' = [wtxn EXCEPT ![h] =
                         IF rolledBack THEN {}
                         ELSE ExecuteMany(View(h), rows, k) \ store]
           /\ processed' = [processed EXCEPT ![h] = Append(@, Outcome(rows, FALSE))]
    /\ q' = [q EXCEPT ![h] = Tail(@)]
    /\ UNCHANGED << shared, mainVars, task, wpc, total_written, handed,
                    sentinels, storeAtStart, sideVars >>

\* queue.get() gives None: break; finally conn.close() (which drops what was
\* not committed) and the final print.
WriterSentinel(h) ==
    /\ wpc[h] = "get"
    /\ q[h] # <<>>
    /\ Head(q[h]).none
    /\ wpc' = [wpc EXCEPT ![h] = "closed"]
    /\ wtxn' = [wtxn EXCEPT ![h] = {}]
    /\ q' = [q EXCEPT ![h] = Tail(@)]
    /\ UNCHANGED << shared, mainVars, task, total_written, history, sideVars >>

\* ------------------------------------------------------------ specifications
\* The steps of the program when the remote serves the same data every time
\* and neither it nor the disk fails.
Step(h) ==
    \/ GetExistingStatus(h)
    \/ \E w \in deploy.workerArgs : UpdateDataStart(h, w)
    \/ \E i \in 1..Len(task[h]) : TaskStart(h, i)
    \/ \E i \in 1..Len(task[h]) : TaskReturns(h, i, 1)
    \/ \E i \in 1..Len(task[h]) : CollectResult(h, i)
    \/ Put(h)
    \/ PutSentinel(h)
    \/ Join(h)
    \/ WriterOpen(h)
    \/ WriterBatchOk(h)
    \/ WriterSentinel(h)

\* The steps in which the remote's data has changed, or the remote or the
\* disk fails.
Fault(h) ==
    \/ \E i \in 1..Len(task[h]), live \in Prices \ {1} : TaskReturns(h, i, live)
    \/ \E i \in 1..Len(task[h]) : TaskFaulted(h, i)
    \/ \E i \in 1..Len(task[h]) : CollectCrash(h, i)
    \/ \E k \in 0..HistoryDays, rolledBack \in BOOLEAN :
           WriterBatchFail(h, k, rolledBack)

Next ==
    \/ \E h \in Handlers : Step(h)
    \/ \E h \in Handlers : Fault(h)

Spec == Init /\ [][Next]_vars

\* The pipeline run MaxRuns times in a row by one thread, with two symbols.
InitRerun ==
    InitWith([handlers |-> {1}, runs |-> MaxRuns, workerArgs |-> Given(1..MaxWorkers)],
             << 1, 2 >>)

SpecRerun == InitRerun /\ [][Next]_vars

\* The same runs, in which the remote may also answer with a status other
\* than 200.
NextStatus ==
    \/ Next
    \/ \E h \in Handlers : \E i \in 1..Len(task[h]), live \in Prices :
           TaskNon200(h, i, live)

SpecStatus == InitRerun /\ [][NextStatus]_vars

\* update_data with one worker and one symbol more than the queue holds, the
\* remote and the disk not failing.
InitBackpressure ==
    InitWith([handlers |-> {1}, runs |-> 1, workerArgs |-> Given({1})],
             [i \in 1..(QueueFactor + 1) |-> i])

NextBackpressure == \E h \in Handlers : Step(h)

SpecBackpressure == InitBackpressure /\ [][NextBackpressure]_vars

\* The same run, in which the writer thread may fail to open the database.
NextHandoff ==
    \/ \E h \in Handlers : Step(h)
    \/ \E h \in Handlers : WriterOpenFails(h)

SpecHandoff == InitBackpressure /\ [][NextHandoff]_vars

\* The pool's threads, the main thread and the writer thread are OS threads:
\* each takes its next step when it can.  A running task finishes, the main
\* thread takes a finished future, puts when there is room and returns from
\* join when the writer has ended, the writer opens (or fails to) and takes
\* what is on the queue.
PoolStep(h) ==
    \/ \E i \in 1..Len(task[h]) : TaskStart(h, i)
    \/ \E i \in 1..Len(task[h]) : TaskReturns(h, i, 1)

MainStep(h) ==
    \/ \E i \in 1..Len(task[h]) : CollectResult(h, i)
    \/ Put(h)
    \/ PutSentinel(h)
    \/ Join(h)

WriterStep(h) ==
    \/ WriterOpen(h)
    \/ WriterOpenFails(h)
    \/ WriterBatchOk(h)
    \/ WriterSentinel(h)

Fairness ==
    \A h \in Handlers :
        /\ WF_vars(PoolStep(h))
        /\ WF_vars(MainStep(h))
        /\ WF_vars(WriterStep(h))

SpecHandoffFair == SpecHandoff /\ Fairness

\* POST /api/etl/run served by the request threads of the server, each
\* calling api_run_etl once; one symbol, so workers is clamped to 1.
InitApi ==
    InitWith([handlers |-> Handlers, runs |-> 1, workerArgs |-> Given({MaxWorkers})],
             << 1 >>)

SpecApi == InitApi /\ [][Next]_vars

\* One run in which update_data is called with any workers argument: none,
\* negative, zero, or up to MaxWorkers.
InitWorkers ==
    InitWith([handlers |-> {1}, runs |-> 1,
              workerArgs |-> { <<>> } \cup Given((0 - 1)..MaxWorkers)],
             [i \in 1..NumSymbols |-> i])

SpecWorkers == InitWorkers /\ [][Next]_vars

\* The range fetcher on its own: one call per response the remote can give.
Scalars == { Null, Bad, Num(1) }
TsScalars == { Null, Bad, Num(Period(Today)) }
SeqsUpTo(S, n) == UNION { [1..m -> S] : m \in 0..n }
Fields(S) == { Absent, NullField, NonList } \cup { List(x) : x \in SeqsUpTo(S, MaxLen) }
ProbeResponses ==
    { NoBody(k) : k \in {"neterr", "badjson", "nokeys", "nullquote"} }
    \cup { Response("chart", ts, o, h, l, c, v) :
             ts \in Fields(TsScalars), o \in Fields(Scalars),
             h \in Fields(Scalars), l \in Fields(Scalars),
             c \in Fields(Scalars), v \in Fields(Scalars) }

InitFetch ==
    /\ InitPipeline([handlers |-> {}, runs |-> 0, workerArgs |-> {}], << 1 >>)
    /\ \E resp \in ProbeResponses, start_dt \in {Today, Today + 1} :
           probe = [st |-> "call", start_dt |-> start_dt, end_dt |-> Today + 1,
                    resp |-> resp]
    /\ probeOut = Returned(<<>>, FALSE)
    /\ IdlePlan
    /\ IdleScrape

FetchCall ==
    /\ probe.st = "call"
    /\ probeOut' = yahoo_fetch_range_rows(1, probe.start_dt, probe.end_dt, probe.resp)
    /\ probe' = [probe EXCEPT !.st = "returned"]
    /\ UNCHANGED << shared, mainVars, task, q, writerVars, history, planVars,
                    scrapeVars >>

NextFetch == FetchCall

SpecFetch == InitFetch /\ [][NextFetch]_vars

\* The window planner on its own: one call per watermark and lookback.
Lookbacks == 0..MaxLookback \cup {YearsBack}
PlanDates ==
    { Today - DaysPerYear * y + k : y \in Lookbacks, k \in (0 - PlanSpan)..PlanSpan }
Watermarks == {NA} \cup { DateCell(d) : d \in PlanDates }

InitPlan ==
    /\ InitPipeline([handlers |-> {}, runs |-> 0, workerArgs |-> {}], << 1 >>)
    /\ probe = NoProbe
    /\ probeOut = Returned(<<>>, FALSE)
    /\ \E raw_last_date \in Watermarks, years_back \in Lookbacks :
           planIn = [st |-> "call", last_date |-> raw_last_date,
                     years_back |-> years_back]
    /\ planOut = << 0, 0 >>
    /\ IdleScrape

PlanCall ==
    /\ planIn.st = "call"
    /\ planOut' = Window(planIn.last_date, planIn.years_back)
    /\ planIn' = [planIn EXCEPT !.st = "returned"]
    /\ UNCHANGED << shared, mainVars, task, q, writerVars, history, probeVars,
                    scrapeVars >>

NextPlan == PlanCall

SpecPlan == InitPlan /\ [][NextPlan]_vars

\* ------------------------------------------------ filter1: symbol scraper
\* A ticker string is the sequence of its parts between hyphens, which is
\* what symbol.split("-") gives: "BTC-USD" is << "BTC", "USD" >>.  The parts
\* for which str.isalpha() holds:
AlphaParts == { "A", "B", "USD", "EUR" }

\* The ticker cells a listing page can hold: A-USD, B-USD, A-B-USD, 1-USD,
\* A-EUR, -USD.
Tickers ==
    { << "A", "USD" >>, << "B", "USD" >>, << "A", "B", "USD" >>,
      << "1", "USD" >>, << "A", "EUR" >>, << "", "USD" >> }

\* symbol.endswith("-USD")
EndsWithUSD(symbol) == Len(symbol) >= 2 /\ symbol[Len(symbol)] = "USD"

_is_valid_symbol(symbol) ==
    IF ~EndsWithUSD(symbol) THEN FALSE
    ELSE LET base == symbol[1]
         IN  IF base = "" THEN FALSE
             ELSE IF base \notin AlphaParts THEN FALSE
             ELSE TRUE

\* start=...&count=100
PageSize == 100

\* A page of the site: the request fails (ok = FALSE), or it gives the
\* ticker cells of the page.
Pages ==
    { [ok |-> FALSE, symbols |-> <<>>] }
    \cup { [ok |-> TRUE, symbols |-> x] : x \in SeqsUpTo(Tickers, MaxPageLen) }

\* _fetch_page(start), and the except branch of the caller: [] on an
\* exception.  Past the site's last page the table is empty.
PageSymbols(start) ==
    LET n == start \div PageSize + 1
    IN  IF n > Len(site) THEN <<>>
        ELSE IF site[n].ok THEN site[n].symbols ELSE <<>>

\* for sym in page_symbols, from the k-th symbol on.
RECURSIVE AddSymbols(_, _, _, _)
AddSymbols(acc, page_symbols, k, limit) ==
    IF k > Len(page_symbols) THEN acc
    ELSE LET sym == page_symbols[k]
         IN  IF ~_is_valid_symbol(sym) THEN AddSymbols(acc, page_symbols, k + 1, limit)
             ELSE IF sym[1] \in acc.seen_bases
                  THEN AddSymbols(acc, page_symbols, k + 1, limit)
             ELSE LET added == [acc EXCEPT !.final_symbols = Append(@, sym),
                                           !.seen_bases = @ \cup {sym[1]}]
                  IN  IF Len(added.final_symbols) >= limit THEN added
                      ELSE AddSymbols(added, page_symbols, k + 1, limit)

\* for start in sorted(page_results.keys())
RECURSIVE ProcessPages(_, _, _)
ProcessPages(acc, results, limit) ==
    IF results = {} THEN acc
    ELSE LET r == CHOOSE x \in results : \A y \in results : x[1] <= y[1]
             seen == [acc EXCEPT !.any_data = @ \/ r[2] # <<>>]
             added == AddSymbols(seen, r[2], 1, limit)
         IN  IF Len(added.final_symbols) >= limit THEN added
             ELSE ProcessPages(added, results \ {r}, limit)

\* The while condition of get_symbols.
MorePages ==
    /\ Len(scrape.final_symbols) < scrape.limit
    /\ scrape.any_data
    /\ scrape.current_page_idx < scrape.max_pages

\* One pass of the while loop up to the submits: the starts of the batch.
ScrapeBatch ==
    /\ scrape.pc = "while"
    /\ MorePages
    /\ LET n == Min(scrape.batch_pages, scrape.max_pages - scrape.current_page_idx)
       IN  scrape' = [scrape EXCEPT
                        !.batch_starts =
                            [j \in 1..n |-> (scrape.current_page_idx + j - 1) * PageSize],
                        !.current_page_idx = @ + n,
                        !.any_data = FALSE,
                        !.page_results = {},
                        !.pc = "fetch"]
    /\ UNCHANGED << shared, mainVars, task, q, writerVars, history, probeVars,
                    planVars, site >>

BatchStarts == { scrape.batch_starts[j] : j \in 1..Len(scrape.batch_starts) }
Fetched == { r[1] : r \in scrape.page_results }

\* as_completed yields the future of one of the batch's pages.
PageFetched(start) ==
    /\ scrape.pc = "fetch"
    /\ start \in BatchStarts \ Fetched
    /\ scrape' = [scrape EXCEPT
                     !.page_results = @ \cup { << start, PageSymbols(start) >> }]
    /\ UNCHANGED << shared, mainVars, task, q, writerVars, history, probeVars,
                    planVars, site >>

\* The rest of the pass: the pages of the batch are gone through in the
\* order of their starts.  (`if not any_data: break` leaves the loop as the
\* while condition does.)
ScrapeProcess ==
    /\ scrape.pc = "fetch"
    /\ Fetched = BatchStarts
    /\ LET acc == ProcessPages(scrape, scrape.page_results, scrape.limit)
       IN  scrape' = [acc EXCEPT
                        !.total_pages_fetched = @ + Cardinality(scrape.page_results),
                        !.pc = "while"]
    /\ UNCHANGED << shared, mainVars, task, q, writerVars, history, probeVars,
                    planVars, site >>

\* The loop is left: final_symbols[:limit] is written to symbols.csv.
ScrapeFinish ==
    /\ scrape.pc = "while"
    /\ ~MorePages
    /\ symbolsCsv' = SubSeq(scrape.final_symbols, 1,
                            Min(Len(scrape.final_symbols), scrape.limit))
    /\ scrape' = [scrape EXCEPT !.pc = "done"]
    /\ UNCHANGED << deploy, planCsv, store, remoteStable, mainVars, task, q,
                    writerVars, history, probeVars, planVars, site >>

\* get_symbols on its own, for every site of MaxPages pages and every
\* (limit, batch_pages, max_pages).
InitScrape ==
    /\ InitPipeline([handlers |-> {}, runs |-> 0, workerArgs |-> {}], <<>>)
    /\ probe = NoProbe
    /\ probeOut = Returned(<<>>, FALSE)
    /\ IdlePlan
    /\ site \in [1..MaxPages -> Pages]
    /\ \E limit \in 0..MaxLimit, batch_pages \in 1..MaxBatch,
          max_pages \in 0..MaxPages :
           scrape = NewScrape("while", limit, batch_pages, max_pages)

NextScrape ==
    \/ ScrapeBatch
    \/ \E start \in BatchStarts : PageFetched(start)
    \/ ScrapeProcess
    \/ ScrapeFinish

SpecScrape == InitScrape /\ [][NextScrape]_vars

\* ================================================================== claims
TaskIds(h) == 1..Len(task[h])
HasRows(h, i) == task[h][i].st = "done" /\ task[h][i].res.rows # <<>>
Crashed(h, i) == task[h][i].st = "done" /\ task[h][i].res.raised
ProcessedSymbols(h) == [j \in 1..Len(processed[h]) |-> processed[h][j].symbol]

\* ---- C1
\* Batches a fetch task has produced and the writer has not yet taken out of
\* the queue and committed (or failed).
InFlight(h) ==
    { i \in TaskIds(h) :
        /\ HasRows(h, i)
        /\ \A j \in 1..Len(processed[h]) : processed[h][j].symbol # task[h][i].symbol }

\* C1: in every reachable state the number of batches produced by fetch
\* tasks and not yet committed by the writer is at most the queue's capacity
\* 4 x workers.
C1_BackpressureBound ==
    \A h \in Handlers : Cardinality(InFlight(h)) <= Capacity(h)

\* ---- C2
\* C2: a task whose watermark is today (or later) ends with an empty batch
\* and without the HTTP request having been issued.
C2_NoRequestWhenCurrent ==
    \A h \in Handlers : \A i \in TaskIds(h) :
        ( /\ task[h][i].st = "done"
          /\ task[h][i].last_date.k = "date"
          /\ task[h][i].last_date.d >= Today )
        => ( ~task[h][i].res.http /\ ~task[h][i].res.raised
             /\ task[h][i].res.rows = <<>> )

\* ---- C3
\* C3: a second run that starts with every watermark current, the remote
\* having answered every request of both runs with the same chart, ends with
\* no non-empty batch, nothing handed to the writer and a total of 0.
C3_SecondRunZeroRows ==
    \A h \in Handlers :
        ( /\ runNo[h] = 2
          /\ pc[h] = "done"
          /\ remoteStable
          /\ \A i \in TaskIds(h) : task[h][i].last_date = DateCell(Today) )
        => ( /\ total_rows[h] = 0
             /\ handed[h] = <<>>
             /\ \A i \in TaskIds(h) : task[h][i].res.rows = <<>> )

\* ---- C4
UniqueKeys(tbl) == \A r1, r2 \in tbl : Key(r1) = Key(r2) => r1 = r2

\* C4: the store holds at most one row per (symbol, date), and a step never
\* removes or changes a committed row (every committed row is still there,
\* with its values, after the step).
C4_UniqueFirstWriteWins ==
    /\ UniqueKeys(store)
    /\ [][store \subseteq store' /\ UniqueKeys(store')]_vars

\* A batch was inserted and committed that held a row whose key the store
\* has with other values.
C4_Witness ==
    \E h \in Handlers : \E j \in 1..Len(processed[h]) :
        /\ processed[h][j].ok
        /\ \E i \in 1..Len(processed[h][j].rows) : \E r \in store :
               /\ Key(r) = Key(processed[h][j].rows[i])
               /\ r # processed[h][j].rows[i]

\* ---- C5
\* C5: no run raises, and when a run in which some task crashed has returned,
\* every other task's non-empty batch was handed to the writer and taken by
\* it, and unless that batch's own insert failed its keys are in the store.
C5_PartialFailureIsolation ==
    \A h \in Handlers :
        /\ pc[h] # "raised"
        /\ ( pc[h] = "done" /\ \E b \in TaskIds(h) : Crashed(h, b) ) =>
             \A a \in TaskIds(h) : HasRows(h, a) =>
                 \E j \in 1..Len(processed[h]) :
                     /\ processed[h][j].rows = task[h][a].res.rows
                     /\ processed[h][j].ok =>
                            \A i \in 1..Len(task[h][a].res.rows) :
                                Key(task[h][a].res.rows[i]) \in Keys(store)

\* A run has returned in which one task crashed and another's batch was
\* committed.
C5_Witness ==
    \E h \in Handlers :
        /\ pc[h] = "done"
        /\ \E b \in TaskIds(h) : Crashed(h, b)
        /\ \E a \in TaskIds(h) : HasRows(h, a) /\
               \E j \in 1..Len(processed[h]) :
                   processed[h][j].rows = task[h][a].res.rows /\ processed[h][j].ok

ActiveWriters == { h \in Handlers : wpc[h] \in {"start", "get"} }

\* C7: at every moment at most one db_writer thread is active against the
\* store.
C7_SingleWriter == Cardinality(ActiveWriters) <= 1

\* ---- C8
\* C8: whatever the remote answers, yahoo_fetch_range_rows returns a list and
\* does not raise.
C8_FetcherNeverRaises == probe.st = "returned" => ~probeOut.raised

\* ---- C9
Present(f, i) == f.k = "list" /\ i <= Len(f.a) /\ f.a[i].t = "num"
Complete(resp, i) ==
    /\ Present(resp.open, i) /\ Present(resp.high, i)
    /\ Present(resp.low, i) /\ Present(resp.close, i)

RECURSIVE ExpectedRows(_, _, _)
ExpectedRows(symbol, resp, n) ==
    IF n = 0 THEN <<>>
    ELSE IF ~Complete(resp, n) THEN ExpectedRows(symbol, resp, n - 1)
    ELSE Append(ExpectedRows(symbol, resp, n - 1),
                << symbol, resp.timestamp.a[n].v \div SecondsPerDay,
                   resp.open.a[n].v, resp.high.a[n].v, resp.low.a[n].v,
                   resp.close.a[n].v,
                   IF Present(resp.volume, n) THEN resp.volume.a[n].v ELSE 0 >>)

\* A chart whose timestamps are numbers and whose quote entries are lists of
\* numbers and nulls, or null, or absent.
WellTyped(resp) ==
    /\ resp.kind = "chart"
    /\ resp.timestamp.k = "list"
    /\ \A i \in 1..Len(resp.timestamp.a) : resp.timestamp.a[i].t = "num"
    /\ \A f \in {resp.open, resp.high, resp.low, resp.close, resp.volume} :
           /\ f.k # "nonlist"
           /\ \A i \in 1..Len(f.a) : f.a[i].t # "str"

\* C9: for a well-typed chart with n timestamps the rows returned are those
\* of the records i <= n with open, high, low and close all present, in
\* order, with volume 0 where the volume is null or the volume array is
\* absent or short.
C9_RowCompleteness ==
    ( probe.st = "returned" /\ probe.start_dt < probe.end_dt /\ WellTyped(probe.resp) )
    => ( /\ ~probeOut.raised
         /\ probeOut.rows = ExpectedRows(1, probe.resp, Len(probe.resp.timestamp.a)) )

\* ---- C10
\* C10: no row of a batch whose insert failed in this run is in the store,
\* unless its key was there when the run started.
C10_FailedBatchAbsent ==
    \A h \in Handlers : \A j \in 1..Len(processed[h]) :
        ~processed[h][j].ok =>
            \A i \in 1..Len(processed[h][j].rows) :
                Key(processed[h][j].rows[i]) \in Keys(store)
                    => Key(processed[h][j].rows[i]) \in Keys(storeAtStart[h])

\* ---- C11
\* today - timedelta(days=365 * lookback_years)
Horizon(years_back) == Today - DaysPerYear * years_back

\* C11: for every watermark and lookback the planned window starts at the
\* horizon when there is no watermark and at the later of the day after the
\* watermark and the horizon when there is one, and ends (exclusive) the day
\* after today.
C11_WindowPlanning ==
    planIn.st = "returned" =>
        /\ planOut[1] = IF planIn.last_date.k = "na"
                        THEN Horizon(planIn.years_back)
                        ELSE Max(planIn.last_date.d + 1, Horizon(planIn.years_back))
        /\ planOut[2] = Today + 1

\* ---- C12
\* The planner has returned for no watermark and a lookback of 10 years,
\* today being 2024-06-01.
C12_Case ==
    /\ Today = DateOrdinal(2024, 6, 1)
    /\ planIn = [st |-> "returned", last_date |-> NA, years_back |-> 10]

\* C12 as stated: with no watermark, a lookback of 10 years and today =
\* 2024-06-01 the window starts on 2014-06-02 and ends (exclusive) on
\* 2024-06-02.
C12_WindowExample ==
    C12_Case => planOut = << DateOrdinal(2014, 6, 2), DateOrdinal(2024, 6, 2) >>

\* C12 amended: with no watermark, a lookback of 10 years and today =
\* 2024-06-01 the window starts 3650 days before today, which is 2014-06-04,
\* and ends (exclusive) on 2024-06-02.
C12_WindowExampleAmended ==
    C12_Case =>
        /\ planOut[1] = Today - 3650
        /\ planOut = << DateOrdinal(2014, 6, 4), DateOrdinal(2024, 6, 2) >>

C12_Witness == C12_Case /\ planOut[2] > planOut[1]

\* ---- C13
\* The rows the run has added to the committed store.
NewlyCommitted(h) == store \ storeAtStart[h]

\* C13: when a run has returned, the total update_data prints and the total
\* the writer prints both equal the number of rows the run fetched and
\* committed (rows ignored as duplicates and rows of failed batches not
\* counted).
C13_RunOutputAccuracy ==
    \A h \in Handlers :
        pc[h] = "done" =>
            /\ total_rows[h] = Cardinality(NewlyCommitted(h))
            /\ total_written[h] = Cardinality(NewlyCommitted(h))

\* ---- C14
\* The tasks whose result the loop has taken without an exception.
Taken(h) == { i \in collected[h] : ~task[h][i].res.raised }

\* C14: in a run there is one task per plan row, in order, with that row's
\* symbol; a task has made a request only if it has finished and its window
\* was not degenerate; only finished tasks are collected, completed counts
\* each collected result once, and the batches handed to the writer (with the
\* one in hand, if any) are those of the collected tasks that had rows, each
\* symbol once.
C14_ExactlyOnceDispatch ==
    \A h \in Handlers :
        /\ pc[h] \in {"collect", "put", "join", "done"} =>
              /\ Len(task[h]) = Len(planCsv)
              /\ \A i \in TaskIds(h) : task[h][i].symbol = planCsv[i].symbol
        /\ \A i \in TaskIds(h) :
              task[h][i].res.http =>
                  /\ task[h][i].st = "done"
                  /\ WindowOf(task[h][i].last_date)[1] < WindowOf(task[h][i].last_date)[2]
        /\ \A i \in collected[h] : i \in TaskIds(h) /\ task[h][i].st = "done"
        /\ completed[h] = Cardinality(Taken(h))
        /\ Len(handed[h]) + (IF pc[h] = "put" THEN 1 ELSE 0)
               = Cardinality({ i \in Taken(h) : HasRows(h, i) })
        /\ \A j, k \in 1..Len(handed[h]) : handed[h][j] = handed[h][k] => j = k
        /\ \A j \in 1..Len(handed[h]) :
               \E i \in Taken(h) : HasRows(h, i) /\ task[h][i].symbol = handed[h][j]

\* A run has returned in which the second task's batch was handed to the
\* writer before the first's.
C14_Witness ==
    \E h \in Handlers :
        /\ pc[h] = "done"
        /\ Len(handed[h]) = 2
        /\ handed[h][1] = task[h][2].symbol
        /\ handed[h][2] = task[h][1].symbol

\* ---- C15
\* C15: once update_data has fixed its worker count, for whatever workers
\* argument, that count is at least 1 and at most the number of symbols, no
\* more tasks than that are running, and the queue is bounded by 4 times that
\* count.
C15_WorkerBound ==
    \A h \in Handlers :
        runNo[h] >= 1 =>
            /\ workers[h] >= 1
            /\ workers[h] <= Len(planCsv)
            /\ Cardinality(Running(h)) <= workers[h]
            /\ ~Full(h) \/ Len(q[h]) = QueueFactor * workers[h]
            /\ Len(q[h]) <= QueueFactor * workers[h]

\* ---- C16
\* C16: every run of update_data that has started eventually returns.
C16_RunTerminates ==
    \A h \in Handlers : (pc[h] = "collect") ~> (pc[h] = "done")

\* ---- C17
RowsOf(tbl, sym) == { r \in tbl : r[1] = sym }
Transient(h, i) == task[h][i].st = "done" /\ task[h][i].transient

\* C17: a task whose request met a transient error has returned no rows
\* without raising, no batch of its symbol is in hand, on the queue or handed
\* over, the store's rows of its symbol are those of the start of the run, and
\* the plan written for the next run has the watermark this run had for it.
C17_TransientErrorFrame ==
    \A h \in Handlers : \A i \in TaskIds(h) :
        Transient(h, i) =>
            /\ task[h][i].res = Returned(<<>>, TRUE)
            /\ \A j \in 1..Len(handed[h]) : handed[h][j] # task[h][i].symbol
            /\ pc[h] = "put" => inhand[h][1][1] # task[h][i].symbol
            /\ RowsOf(store, task[h][i].symbol)
                  = RowsOf(storeAtStart[h], task[h][i].symbol)
            /\ pc[h] = "planned" =>
                  /\ planCsv[i].last_date = task[h][i].last_date
                  /\ WindowOf(planCsv[i].last_date) = WindowOf(task[h][i].last_date)

\* ---- C18
\* C18: when the loop has taken every future, crashed ones included,
\* completed equals the number of symbols and the progress line for that
\* count has been printed.
C18_CrashedTasksCounted ==
    \A h \in Handlers :
        ( pc[h] \in {"collect", "join", "done"} /\ LoopDone(h) ) =>
            /\ completed[h] = Len(task[h])
            /\ Len(task[h]) \in progress[h]

\* ---- C19
\* <alphabetic base>-USD
WellFormed(symbol) ==
    Len(symbol) = 2 /\ symbol[1] # "" /\ symbol[1] \in AlphaParts /\ symbol[2] = "USD"

\* What stands before the last hyphen.
BaseOf(symbol) == SubSeq(symbol, 1, Len(symbol) - 1)

\* The accepted symbols of the pages 1..n taken page by page, in the order of
\* the pages, up to limit.
RECURSIVE InPageOrder(_, _)
InPageOrder(n, limit) ==
    IF n = 0 THEN [final_symbols |-> <<>>, seen_bases |-> {}]
    ELSE LET acc == InPageOrder(n - 1, limit)
         IN  IF Len(acc.final_symbols) >= limit THEN acc
             ELSE AddSymbols(acc, PageSymbols((n - 1) * PageSize), 1, limit)

\* C19: get_symbols never fetches more than max_pages pages, and what it
\* returns has at most limit symbols, each of the form <alphabetic base>-USD,
\* no two with the same base, and is the sequence the contents of the fetched
\* pages give in page order, whatever order the pages of a batch came in.
C19_SymbolUniverse ==
    /\ scrape.total_pages_fetched <= scrape.max_pages
    /\ scrape.current_page_idx <= scrape.max_pages
    /\ scrape.pc = "done" =>
          /\ Len(symbolsCsv) <= scrape.limit
          /\ \A j \in 1..Len(symbolsCsv) : WellFormed(symbolsCsv[j])
          /\ \A j, k \in 1..Len(symbolsCsv) :
                 BaseOf(symbolsCsv[j]) = BaseOf(symbolsCsv[k]) => j = k
          /\ symbolsCsv = InPageOrder(scrape.current_page_idx, scrape.limit).final_symbols

\* ---- C20
\* The main thread is at q.put(rows) or at q.put(None).
AtPut(h) == pc[h] = "put" \/ (pc[h] = "collect" /\ LoopDone(h))

\* C20: in no reachable state is the main thread at a put on a full queue
\* while the writer thread has ended.
C20_NoHandoffDeadlock ==
    \A h \in Handlers : ~(AtPut(h) /\ Full(h) /\ WriterEnded(h))

====
